---- MODULE Spec2Model ----
(***************************************************************************)
(* ADX screening back-test: the indicator (src/indicators/adx.ts), the     *)
(* screening rule (src/strategies/adx-screening.ts) and the trade          *)
(* simulator with its metrics (src/backtesting/backtest-engine.ts).        *)
(*                                                                         *)
(* JavaScript numbers that hold prices, indicator values and money are     *)
(* modelled as exact rationals [num, den] (den > 0, lowest terms); indices and *)
(* counters are integers.  Code indices are 0-based: At(s, i) is s[i].     *)
(***************************************************************************)
EXTENDS Integers, Sequences, FiniteSets

\* ------------------------------------------------------------------ bounds
\* Candles a run may hold beyond the warm-up of 2 * period bars.
MaxBarsAfterWarmup == 3

\* ------------------------------------------------------- exact arithmetic
Abs(x) == IF x < 0 THEN -x ELSE x

RECURSIVE Gcd(_, _)
Gcd(a, b) == IF b = 0 THEN a ELSE Gcd(b, a % b)

\* The rational n/d in lowest terms with a positive denominator.
Rat(n, d) ==
  LET s == IF d < 0 THEN -1 ELSE 1
      g == Gcd(Abs(n), Abs(d))
  IN  [num |-> (s * n) \div g, den |-> (s * d) \div g]

RInt(n) == [num |-> n, den |-> 1]
RZero == RInt(0)
RNeg(x) == [num |-> -x.num, den |-> x.den]
RAdd(x, y) ==
  LET g == Gcd(x.den, y.den)
  IN  Rat(x.num * (y.den \div g) + y.num * (x.den \div g), (x.den \div g) * y.den)
RSub(x, y) == RAdd(x, RNeg(y))
RMul(x, y) == Rat(x.num * y.num, x.den * y.den)
RDiv(x, y) == Rat(x.num * y.den, x.den * y.num)
RAbs(x) == [num |-> Abs(x.num), den |-> x.den]
RLt(x, y) == x.num * y.den < y.num * x.den
RLe(x, y) == x.num * y.den <= y.num * x.den
RGt(x, y) == RLt(y, x)
RMax(x, y) == IF RLt(x, y) THEN y ELSE x

\* 0-based access, as the code indexes its arrays.
At(s, i) == s[i + 1]
\* Array.prototype.slice(from, to) with 0 <= from <= to <= length.
Slice(s, from, to) == SubSeq(s, from + 1, to)

\* adxResults[adxResults.length - 1]
lastOf(s) == s[Len(s)]

RECURSIVE RSum(_)
RSum(s) == IF s = <<>> THEN RZero ELSE RAdd(s[1], RSum(Tail(s)))

\* undefined / null
UNDEF == [undefined |-> TRUE]

\* The element of a singleton set.  Val({F(x) : x \in {e}}) is F(e) with e
\* evaluated once, whatever the number of uses of x in F.
Val(S) == CHOOSE v \in S : TRUE

\* -------------------------------------------------------------- indicator
\* calculateTrueRange(candles, index)
calculateTrueRange(candles, index) ==
  IF index = 0
    THEN RSub(At(candles, 0).high, At(candles, 0).low)
    ELSE LET current == At(candles, index)
             previous == At(candles, index - 1)
             tr1 == RSub(current.high, current.low)
             tr2 == RAbs(RSub(current.high, previous.close))
             tr3 == RAbs(RSub(current.low, previous.close))
         IN  RMax(RMax(tr1, tr2), tr3)

\* +DM taken whenever the high rose, without the comparison with lowDiff.
plusDMAt_OnlyPositive(candles, i) ==
  IF i = 0 THEN RZero
  ELSE LET highDiff == RSub(At(candles, i).high, At(candles, i - 1).high)
       IN  IF RGt(highDiff, RZero) THEN highDiff ELSE RZero

\* +DM of bar i (0 at i = 0)
plusDMAt(candles, i) ==
  IF i = 0 THEN RZero
  ELSE LET highDiff == RSub(At(candles, i).high, At(candles, i - 1).high)
           lowDiff == RSub(At(candles, i - 1).low, At(candles, i).low)
       IN  IF RGt(highDiff, lowDiff) /\ RGt(highDiff, RZero) THEN highDiff ELSE RZero

\* -DM of bar i (0 at i = 0)
minusDMAt(candles, i) ==
  IF i = 0 THEN RZero
  ELSE LET highDiff == RSub(At(candles, i).high, At(candles, i - 1).high)
           lowDiff == RSub(At(candles, i - 1).low, At(candles, i).low)
       IN  IF RGt(lowDiff, highDiff) /\ RGt(lowDiff, RZero) THEN lowDiff ELSE RZero

\* The first loop of calculateADX: the three per-bar series.
trueRangesOf(candles) == [k \in 1..Len(candles) |-> calculateTrueRange(candles, k - 1)]
plusDMOf(candles) == [k \in 1..Len(candles) |-> plusDMAt(candles, k - 1)]
minusDMOf(candles) == [k \in 1..Len(candles) |-> minusDMAt(candles, k - 1)]

\* Wilder smoothing reading the last value of the series, as the helper
\* smoothedAverage does, instead of the value at index i.
smoothedAt_ReadsLastValue(previousSmoothed, values, period, i) ==
  IF previousSmoothed = UNDEF
    THEN RDiv(RSum(Slice(values, i - period + 1, i + 1)), RInt(period))
    ELSE RDiv(RAdd(RMul(previousSmoothed, RInt(period - 1)), At(values, Len(values) - 1)),
              RInt(period))

\* Wilder smoothing of one series at index i: the simple mean of the last
\* `period` values on the first pass, the recurrence afterwards.
smoothedAt(previousSmoothed, values, period, i) ==
  IF previousSmoothed = UNDEF
    THEN RDiv(RSum(Slice(values, i - period + 1, i + 1)), RInt(period))
    ELSE RDiv(RAdd(RMul(previousSmoothed, RInt(period - 1)), At(values, i)), RInt(period))

\* +DI / -DI from a smoothed directional movement and the smoothed true range.
directionalIndicator(smoothedDM, smoothedTR) ==
  IF RGt(smoothedTR, RZero) THEN RMul(RDiv(smoothedDM, smoothedTR), RInt(100)) ELSE RZero

\* DX from +DI and -DI.
directionalIndex(plusDI, minusDI) ==
  Val({IF RGt(diSum, RZero)
         THEN RMul(RDiv(RAbs(RSub(plusDI, minusDI)), diSum), RInt(100))
         ELSE RZero :
       diSum \in {RAdd(plusDI, minusDI)}})

\* smoothedDX after dx was pushed on dxValues.
smoothedDXAfter(smoothedDX, dxValues, dx, period) ==
  IF Len(dxValues) < period THEN smoothedDX
  ELSE IF smoothedDX = UNDEF
    THEN RDiv(RSum(Slice(dxValues, Len(dxValues) - period, Len(dxValues))), RInt(period))
    ELSE RDiv(RAdd(RMul(smoothedDX, RInt(period - 1)), dx), RInt(period))

\* The state carried by the second loop of calculateADX after index i, from
\* the smoothed values, the indicators and the DX of that index.
adxState(st, sTR, sPDM, sMDM, plusDI, minusDI, dxValues, sDX, period, i) ==
  [smoothedTR |-> sTR, smoothedPlusDM |-> sPDM, smoothedMinusDM |-> sMDM,
   smoothedDX |-> sDX, dxValues |-> dxValues,
   results |-> [st.results EXCEPT ![i + 1] =
                   [adx |-> IF Len(dxValues) >= period THEN sDX ELSE RZero,
                    plusDI |-> plusDI, minusDI |-> minusDI]]]

\* One pass of the second loop of calculateADX at index i, from the carried
\* state st = [smoothedTR, smoothedPlusDM, smoothedMinusDM, smoothedDX,
\* dxValues, results].
adxStep(st, trueRanges, plusDM, minusDM, period, i) ==
  Val({Val({Val({Val({Val({
    adxState(st, sTR, sPDM, sMDM, plusDI, minusDI, dxValues, sDX, period, i) :
      sDX \in {smoothedDXAfter(st.smoothedDX, dxValues, dx, period)}}) :
      dxValues \in {Append(st.dxValues, dx)}}) :
      dx \in {directionalIndex(plusDI, minusDI)}}) :
      plusDI \in {directionalIndicator(sPDM, sTR)},
      minusDI \in {directionalIndicator(sMDM, sTR)}}) :
      sTR \in {smoothedAt(st.smoothedTR, trueRanges, period, i)},
      sPDM \in {smoothedAt(st.smoothedPlusDM, plusDM, period, i)},
      sMDM \in {smoothedAt(st.smoothedMinusDM, minusDM, period, i)}})

RECURSIVE adxLoop(_, _, _, _, _, _, _)
adxLoop(st, trueRanges, plusDM, minusDM, period, i, n) ==
  IF i >= n THEN st
  ELSE Val({adxLoop(next, trueRanges, plusDM, minusDM, period, i + 1, n) :
              next \in {adxStep(st, trueRanges, plusDM, minusDM, period, i)}})

\* calculateADX answering "no data" only below `period` candles.
calculateADX_ShortGuard(candles, period) ==
  IF Len(candles) < period
    THEN [k \in 1..Len(candles) |-> UNDEF]
    ELSE Val({adxLoop([smoothedTR |-> UNDEF, smoothedPlusDM |-> UNDEF,
                       smoothedMinusDM |-> UNDEF, smoothedDX |-> UNDEF,
                       dxValues |-> <<>>,
                       results |-> [k \in 1..Len(candles) |-> UNDEF]],
                      trueRanges, plusDM, minusDM,
                      period, period, Len(candles)).results :
                trueRanges \in {trueRangesOf(candles)},
                plusDM \in {plusDMOf(candles)},
                minusDM \in {minusDMOf(candles)}})

\* calculateADX(candles, period): one entry per candle, UNDEF or
\* [adx, plusDI, minusDI].
calculateADX(candles, period) ==
  IF Len(candles) < period * 2
    THEN [k \in 1..Len(candles) |-> UNDEF]
    ELSE Val({adxLoop([smoothedTR |-> UNDEF, smoothedPlusDM |-> UNDEF,
                       smoothedMinusDM |-> UNDEF, smoothedDX |-> UNDEF,
                       dxValues |-> <<>>,
                       results |-> [k \in 1..Len(candles) |-> UNDEF]],
                      trueRanges, plusDM, minusDM,
                      period, period, Len(candles)).results :
                trueRanges \in {trueRangesOf(candles)},
                plusDM \in {plusDMOf(candles)},
                minusDM \in {minusDMOf(candles)}})

\* -------------------------------------------------------------- screening
\* screen taking the market for lateral only strictly below the threshold.
screen_StrictThreshold(params, candles, index) ==
  IF index < params.pADXPeriodo * 2 THEN UNDEF
  ELSE Val({IF adxResult = UNDEF THEN UNDEF
            ELSE IF adxResult.adx = RZero THEN UNDEF
            ELSE [screening |-> RLt(adxResult.adx, params.pADXMaxLateral),
                  adxValue |-> adxResult.adx,
                  isLateral |-> RLt(adxResult.adx, params.pADXMaxLateral),
                  timestamp |-> At(candles, index).timestamp] :
            adxResult \in {lastOf(calculateADX(Slice(candles, 0, index + 1),
                                               params.pADXPeriodo))}})

\* screen with a warm-up of `period` bars instead of 2 * period.
screen_ShortWarmup(params, candles, index) ==
  IF index < params.pADXPeriodo THEN UNDEF
  ELSE Val({IF adxResult = UNDEF THEN UNDEF
            ELSE IF adxResult.adx = RZero THEN UNDEF
            ELSE [screening |-> RLe(adxResult.adx, params.pADXMaxLateral),
                  adxValue |-> adxResult.adx,
                  isLateral |-> RLe(adxResult.adx, params.pADXMaxLateral),
                  timestamp |-> At(candles, index).timestamp] :
            adxResult \in {lastOf(calculateADX(Slice(candles, 0, index + 1),
                                               params.pADXPeriodo))}})

\* ADXScreeningStrategy.screen(candles, index) under params
\* [pADXPeriodo, pADXMaxLateral].
screen(params, candles, index) ==
  IF index < params.pADXPeriodo * 2 THEN UNDEF
  ELSE Val({IF adxResult = UNDEF THEN UNDEF
            ELSE IF adxResult.adx = RZero THEN UNDEF
            ELSE [screening |-> RLe(adxResult.adx, params.pADXMaxLateral),
                  adxValue |-> adxResult.adx,
                  isLateral |-> RLe(adxResult.adx, params.pADXMaxLateral),
                  timestamp |-> At(candles, index).timestamp] :
            adxResult \in {lastOf(calculateADX(Slice(candles, 0, index + 1),
                                               params.pADXPeriodo))}})

\* ADXScreeningStrategy.screenAll(candles)
screenAll(params, candles) == [k \in 1..Len(candles) |-> screen(params, candles, k - 1)]

\* -------------------------------------------------------------- simulator
\* The entry test without the check that no position is open.
entryCondition_IgnoresPosition(position, screening) == screening.screening

\* Entry test of BacktestEngine.run: `!position && screening.screening`.
entryCondition(position, screening) == position = UNDEF /\ screening.screening

\* Mode 'both' taking the short branch.
openPosition_BothShort(config, candles, i) ==
  IF config.tradingMode = "long"
    THEN [type |-> "long", entryIndex |-> i,
          entryPrice |-> RMul(At(candles, i).close, RAdd(RInt(1), config.slippage))]
    ELSE [type |-> "short", entryIndex |-> i,
          entryPrice |-> RMul(At(candles, i).close, RSub(RInt(1), config.slippage))]

\* The position opened on bar i under the configured trading mode.
openPosition(config, candles, i) ==
  IF config.tradingMode = "long" \/ config.tradingMode = "both"
    THEN [type |-> "long", entryIndex |-> i,
          entryPrice |-> RMul(At(candles, i).close, RAdd(RInt(1), config.slippage))]
    ELSE [type |-> "short", entryIndex |-> i,
          entryPrice |-> RMul(At(candles, i).close, RSub(RInt(1), config.slippage))]

\* shouldExit of BacktestEngine.run.  maxHoldingPeriod 0 stands for an unset
\* limit: the code's truthiness test treats undefined and 0 alike.
shouldExit(config, screening, position, i) ==
  \/ ~screening.screening
  \/ (config.maxHoldingPeriod # 0 /\ i - position.entryIndex >= config.maxHoldingPeriod)

\* Exit fill of a position at a candle.
exitPriceOf(config, position, candle) ==
  IF position.type = "long"
    THEN RMul(candle.close, RSub(RInt(1), config.slippage))
    ELSE RMul(candle.close, RAdd(RInt(1), config.slippage))

\* pnlPercent with the commission charged on one side only.
pnlPercentOf_OneSidedCommission(config, position, exitPrice) ==
  LET raw == IF position.type = "long"
               THEN RDiv(RSub(exitPrice, position.entryPrice), position.entryPrice)
               ELSE RDiv(RSub(position.entryPrice, exitPrice), position.entryPrice)
  IN  RSub(raw, config.commission)

\* pnlPercent of a close: side-signed raw return minus the round-trip commission.
pnlPercentOf(config, position, exitPrice) ==
  LET raw == IF position.type = "long"
               THEN RDiv(RSub(exitPrice, position.entryPrice), position.entryPrice)
               ELSE RDiv(RSub(position.entryPrice, exitPrice), position.entryPrice)
  IN  RSub(raw, RMul(config.commission, RInt(2)))

\* The Trade pushed when `position` is closed at candle index exitIndex with
\* `capital` the capital before the close.
closeTrade(config, candles, position, exitIndex, capital) ==
  LET exitPrice == exitPriceOf(config, position, At(candles, exitIndex))
      pnlPercent == pnlPercentOf(config, position, exitPrice)
      positionValue == RMul(capital, config.positionSize)
      pnl == RMul(positionValue, pnlPercent)
  IN  [entryIndex |-> position.entryIndex, exitIndex |-> exitIndex,
       entryPrice |-> position.entryPrice, exitPrice |-> exitPrice,
       entryTime |-> At(candles, position.entryIndex).timestamp,
       exitTime |-> At(candles, exitIndex).timestamp,
       pnl |-> pnl, pnlPercent |-> pnlPercent, type |-> position.type]

\* The capital update adding the percentage instead of the pnl.
capitalAfter_Percent(capital, trade) == RAdd(capital, trade.pnlPercent)

\* `capital += pnl`
capitalAfter(capital, trade) == RAdd(capital, trade.pnl)

\* Index at which the position left open after the loop is closed.
forcedExitIndex(candles) == Len(candles) - 1

\* The close after the loop left out.
forcedCloseNeeded_Never(position, candles) == FALSE

\* Guard of the close after the loop: `position && candles.length > 0`.
forcedCloseNeeded(position, candles) == position # UNDEF /\ Len(candles) > 0

\* ---------------------------------------------------------------- metrics
RECURSIVE SumPnl(_)
SumPnl(ts) == IF ts = <<>> THEN RZero ELSE RAdd(SumPnl(SubSeq(ts, 1, Len(ts) - 1)), ts[Len(ts)].pnl)

wins(ts) == SelectSeq(ts, LAMBDA t : RGt(t.pnl, RZero))
losses(ts) == SelectSeq(ts, LAMBDA t : RLt(t.pnl, RZero))

\* Number.POSITIVE_INFINITY
Infinity == [infinity |-> TRUE]

\* grossProfit and grossLoss of calculateMetrics.
grossProfitOf(ts) == SumPnl(wins(ts))
grossLossOf(ts) == RAbs(SumPnl(losses(ts)))

\* The profit factor reported as 0 whenever there is no loss.
profitFactorOf_ZeroWithoutLoss(grossProfit, grossLoss) ==
  IF RGt(grossLoss, RZero) THEN RDiv(grossProfit, grossLoss) ELSE RZero

\* profitFactor of calculateMetrics.
profitFactorOf(grossProfit, grossLoss) ==
  IF RGt(grossLoss, RZero) THEN RDiv(grossProfit, grossLoss)
  ELSE IF RGt(grossProfit, RZero) THEN Infinity ELSE RZero

\* The win rate returned as the fraction itself.
reportedWinRate_Fraction(winRate) == winRate

\* `winRate: winRate * 100` of the returned BacktestResult.
reportedWinRate(winRate) == RMul(winRate, RInt(100))

\* BacktestEngine.calculateMetrics (the fields the back-test reports, without
\* the Sharpe ratio and the per-trade averages and extremes).
calculateMetrics(config, ts, finalCapital, maxDD, signals) ==
  LET totalTrades == Len(ts)
      winningTrades == Len(wins(ts))
      losingTrades == Len(losses(ts))
      winRate == IF totalTrades > 0 THEN Rat(winningTrades, totalTrades) ELSE RZero
      totalPnL == SumPnl(ts)
      grossProfit == grossProfitOf(ts)
      grossLoss == grossLossOf(ts)
  IN  [trades |-> ts,
       totalTrades |-> totalTrades,
       winningTrades |-> winningTrades,
       losingTrades |-> losingTrades,
       winRate |-> reportedWinRate(winRate),
       totalPnL |-> totalPnL,
       totalPnLPercent |->
         RMul(RDiv(RSub(finalCapital, config.initialCapital), config.initialCapital), RInt(100)),
       profitFactor |-> profitFactorOf(grossProfit, grossLoss),
       finalCapital |-> finalCapital,
       maxDrawdown |-> maxDD,
       maxDrawdownPercent |-> RMul(RDiv(maxDD, config.initialCapital), RInt(100)),
       screeningSignals |-> signals,
       screeningSuccessRate |->
         IF signals > 0 THEN RMul(Rat(winningTrades, signals), RInt(100)) ELSE RZero]

\* ------------------------------------------------------------------ bounds
\* Candles handed to a direct calculateADX call.
MaxIndicatorCandles == 3

\* ------------------------------------------------------------ input space
\* Candle shapes [high, low, close]; the open is never read by the engine.
CandleShapes == {<<2, 1, 1>>, <<3, 2, 2>>}

Candle(shape, index) ==
  [high |-> RInt(shape[1]), low |-> RInt(shape[2]), close |-> RInt(shape[3]),
   timestamp |-> 60 * index]

Periods == {1, 2}
Thresholds == {RInt(50), RInt(100)}

CandleSeqs(period) ==
  UNION {{[k \in 1..n |-> Candle(f[k], k - 1)] : f \in [1..n -> CandleShapes]} :
           n \in 0..(2 * period + MaxBarsAfterWarmup)}

Params == [pADXPeriodo : Periods, pADXMaxLateral : Thresholds]

\* Candles for the indicator alone: highs and lows that rise, fall and widen
\* independently; the close sits at the low.
IndicatorShapes == {<<h, l, l>> : h \in {2, 3, 4}, l \in {0, 1, 2}}

IndicatorCandleSeqs ==
  UNION {{[k \in 1..n |-> Candle(f[k], k - 1)] : f \in [1..n -> IndicatorShapes]} :
           n \in 0..MaxIndicatorCandles}

Configs ==
  {[initialCapital |-> RInt(100), positionSize |-> Rat(1, 2),
    commission |-> m[1], slippage |-> m[2],
    maxHoldingPeriod |-> h, tradingMode |-> t] :
      m \in {<<Rat(1, 100), RZero>>, <<RZero, Rat(1, 4)>>},
      h \in {0, 1, 2},
      t \in {"long", "short", "both"}}

\* ------------------------------------------------------------------ state
VARIABLES
  candles,           \* the candle sequence handed to run / calculateADX
  params,            \* ADXScreeningStrategy.params
  config,            \* BacktestEngine.config
  pc,                \* "start" | "loop" | "done" | "indicator"
  i,                 \* loop index of run
  screeningResults,  \* screenAll(candles)
  capital, peakCapital, maxDrawdown, position, trades, screeningSignals,
  result,            \* the BacktestResult returned by run
  adxResults,        \* the array returned by a direct calculateADX call
  directionalMovement, \* the plusDM / minusDM arrays of that call
  previousResult,    \* the BacktestResult of an earlier run on the same engine
  opened,            \* history: the positions opened so far, in order
  capitalTrace       \* history: capital after each trade close

vars == <<candles, params, config, pc, i, screeningResults, capital, peakCapital,
          maxDrawdown, position, trades, screeningSignals, result, adxResults,
          directionalMovement, previousResult, opened, capitalTrace>>

inputs == <<candles, params, config>>
locals == <<capital, peakCapital, maxDrawdown, position, trades, screeningSignals>>
indicatorOut == <<adxResults, directionalMovement>>

Init ==
  /\ params \in Params
  /\ candles \in CandleSeqs(params.pADXPeriodo)
  /\ config \in Configs
  /\ pc = "start"
  /\ i = 0
  /\ screeningResults = <<>>
  /\ capital = RZero
  /\ peakCapital = RZero
  /\ maxDrawdown = RZero
  /\ position = UNDEF
  /\ trades = <<>>
  /\ screeningSignals = 0
  /\ result = UNDEF
  /\ adxResults = <<>>
  /\ directionalMovement = [plusDM |-> <<>>, minusDM |-> <<>>]
  /\ previousResult = UNDEF
  /\ opened = <<>>
  /\ capitalTrace = <<>>

\* calculateADX(candles, period) called on its own.
Indicator ==
  /\ pc = "start"
  /\ adxResults' = calculateADX(candles, params.pADXPeriodo)
  /\ directionalMovement' =
        IF Len(candles) < params.pADXPeriodo * 2
          THEN [plusDM |-> <<>>, minusDM |-> <<>>]
          ELSE [plusDM |-> plusDMOf(candles), minusDM |-> minusDMOf(candles)]
  /\ pc' = "indicator"
  /\ UNCHANGED <<inputs, i, screeningResults, locals, result, previousResult, opened,
                 capitalTrace>>

\* run with the capital kept from the last call instead of a fresh local.
RunBegin_KeepsCapital ==
  /\ pc = "start"
  /\ screeningResults' = screenAll(params, candles)
  /\ capital' = IF previousResult = UNDEF THEN config.initialCapital ELSE capital
  /\ peakCapital' = config.initialCapital
  /\ maxDrawdown' = RZero
  /\ position' = UNDEF
  /\ trades' = <<>>
  /\ screeningSignals' = 0
  /\ i' = 0
  /\ pc' = "loop"
  /\ UNCHANGED <<inputs, result, indicatorOut, previousResult, opened, capitalTrace>>

\* run, lines 72-79: screenAll and the initial locals.
RunBegin ==
  /\ pc = "start"
  /\ screeningResults' = screenAll(params, candles)
  /\ capital' = config.initialCapital
  /\ peakCapital' = config.initialCapital
  /\ maxDrawdown' = RZero
  /\ position' = UNDEF
  /\ trades' = <<>>
  /\ screeningSignals' = 0
  /\ i' = 0
  /\ pc' = "loop"
  /\ UNCHANGED <<inputs, result, indicatorOut, previousResult, opened, capitalTrace>>

InLoop == pc = "loop" /\ i < Len(candles)
screening == At(screeningResults, i)
countSignal == IF screening.screening THEN screeningSignals + 1 ELSE screeningSignals

\* A bar without a screening result on which a position held for
\* maxHoldingPeriod bars or more is dropped.
BarSkip_DropsOverdue ==
  /\ InLoop
  /\ screening = UNDEF
  /\ position' =
        IF /\ position # UNDEF
           /\ config.maxHoldingPeriod # 0
           /\ i - position.entryIndex >= config.maxHoldingPeriod
          THEN UNDEF ELSE position
  /\ i' = i + 1
  /\ UNCHANGED <<inputs, pc, screeningResults, capital, peakCapital, maxDrawdown, trades,
                 screeningSignals, result, indicatorOut, previousResult, opened, capitalTrace>>

\* A bar without a screening result: `if (!screening) continue`.
BarSkip ==
  /\ InLoop
  /\ screening = UNDEF
  /\ i' = i + 1
  /\ UNCHANGED <<inputs, pc, screeningResults, locals, result, indicatorOut, previousResult, opened, capitalTrace>>

\* A bar on which a position is opened, then `continue`.
BarEnter ==
  /\ InLoop
  /\ screening # UNDEF
  /\ entryCondition(position, screening)
  /\ screeningSignals' = countSignal
  /\ position' = openPosition(config, candles, i)
  /\ opened' = Append(opened, openPosition(config, candles, i))
  /\ i' = i + 1
  /\ UNCHANGED <<inputs, pc, screeningResults, capital, peakCapital, maxDrawdown, trades,
                 result, indicatorOut, previousResult, capitalTrace>>

\* A bar on which the open position is closed.
BarExit ==
  /\ InLoop
  /\ screening # UNDEF
  /\ ~entryCondition(position, screening)
  /\ position # UNDEF
  /\ shouldExit(config, screening, position, i)
  /\ LET trade == closeTrade(config, candles, position, i, capital)
         newCapital == capitalAfter(capital, trade)
         newPeak == IF RGt(newCapital, peakCapital) THEN newCapital ELSE peakCapital
         drawdown == RSub(newPeak, newCapital)
     IN  /\ capital' = newCapital
         /\ trades' = Append(trades, trade)
         /\ peakCapital' = newPeak
         /\ maxDrawdown' = IF RGt(drawdown, maxDrawdown) THEN drawdown ELSE maxDrawdown
         /\ capitalTrace' = Append(capitalTrace, newCapital)
  /\ position' = UNDEF
  /\ screeningSignals' = countSignal
  /\ i' = i + 1
  /\ UNCHANGED <<inputs, pc, screeningResults, result, indicatorOut, previousResult, opened>>

\* A bar on which the open position is kept.
BarHold ==
  /\ InLoop
  /\ screening # UNDEF
  /\ ~entryCondition(position, screening)
  /\ position # UNDEF
  /\ ~shouldExit(config, screening, position, i)
  /\ screeningSignals' = countSignal
  /\ i' = i + 1
  /\ UNCHANGED <<inputs, pc, screeningResults, capital, peakCapital, maxDrawdown, position,
                 trades, result, indicatorOut, previousResult, opened, capitalTrace>>

\* A bar with a non-lateral signal and no position: neither branch is taken.
BarIdle ==
  /\ InLoop
  /\ screening # UNDEF
  /\ ~entryCondition(position, screening)
  /\ position = UNDEF
  /\ screeningSignals' = countSignal
  /\ i' = i + 1
  /\ UNCHANGED <<inputs, pc, screeningResults, capital, peakCapital, maxDrawdown, position,
                 trades, result, indicatorOut, previousResult, opened, capitalTrace>>

\* After the loop, a position still open: lines 165-200.  The close updates
\* capital and trades only; position itself is not reset before the return.
ForcedClose ==
  /\ pc = "loop" /\ i >= Len(candles)
  /\ forcedCloseNeeded(position, candles)
  /\ LET trade == closeTrade(config, candles, position, forcedExitIndex(candles), capital)
         newCapital == capitalAfter(capital, trade)
     IN  /\ capital' = newCapital
         /\ trades' = Append(trades, trade)
         /\ capitalTrace' = Append(capitalTrace, newCapital)
         /\ result' = calculateMetrics(config, Append(trades, trade), newCapital,
                                       maxDrawdown, screeningSignals)
  /\ pc' = "done"
  /\ UNCHANGED <<inputs, i, screeningResults, peakCapital, maxDrawdown, position,
                 screeningSignals, indicatorOut, previousResult, opened>>

\* After the loop, no position open: line 200.
Finish ==
  /\ pc = "loop" /\ i >= Len(candles)
  /\ ~forcedCloseNeeded(position, candles)
  /\ result' = calculateMetrics(config, trades, capital, maxDrawdown, screeningSignals)
  /\ pc' = "done"
  /\ UNCHANGED <<inputs, i, screeningResults, locals, indicatorOut, previousResult, opened, capitalTrace>>

Next ==
  \/ Indicator
  \/ RunBegin
  \/ BarSkip
  \/ BarEnter
  \/ BarExit
  \/ BarHold
  \/ BarIdle
  \/ ForcedClose
  \/ Finish

Spec == Init /\ [][Next]_vars

\* calculateADX called on its own with period 1, over the indicator's candles.
InitIndicator ==
  /\ params = [pADXPeriodo |-> 1, pADXMaxLateral |-> RInt(50)]
  /\ candles \in IndicatorCandleSeqs
  /\ config \in {c \in Configs : c.maxHoldingPeriod = 0 /\ c.tradingMode = "long"}
  /\ pc = "start"
  /\ i = 0
  /\ screeningResults = <<>>
  /\ capital = RZero
  /\ peakCapital = RZero
  /\ maxDrawdown = RZero
  /\ position = UNDEF
  /\ trades = <<>>
  /\ screeningSignals = 0
  /\ result = UNDEF
  /\ adxResults = <<>>
  /\ directionalMovement = [plusDM |-> <<>>, minusDM |-> <<>>]
  /\ previousResult = UNDEF
  /\ opened = <<>>
  /\ capitalTrace = <<>>

NextIndicator == Indicator

SpecIndicator == InitIndicator /\ [][NextIndicator]_vars

\* screenAll and calculateADX applied to every candle series and parameter
\* pair, under one configuration: neither reads the configuration.
InitScreening ==
  /\ Init
  /\ config.maxHoldingPeriod = 0 /\ config.tradingMode = "long" /\ config.commission = RZero

NextScreening ==
  \/ RunBegin
  \/ Indicator

SpecScreening == InitScreening /\ [][NextScreening]_vars

\* The caller keeps the returned BacktestResult and calls run once more on the
\* same engine with the same candles.
RunAgain ==
  /\ pc = "done"
  /\ previousResult = UNDEF
  /\ previousResult' = result
  /\ opened' = <<>>
  /\ capitalTrace' = <<>>
  /\ pc' = "start"
  /\ UNCHANGED <<inputs, i, screeningResults, locals, result, indicatorOut>>

\* Engines with period 1, each run twice.
InitRepeat == Init /\ params.pADXPeriodo = 1

NextRepeat ==
  \/ RunBegin
  \/ BarSkip
  \/ BarEnter
  \/ BarExit
  \/ BarHold
  \/ BarIdle
  \/ ForcedClose
  \/ Finish
  \/ RunAgain

SpecRepeat == InitRepeat /\ [][NextRepeat]_vars

\* ----------------------------------------------------------------- claims
lastCandleIndex == Len(candles) - 1
period == params.pADXPeriodo
Running == pc \in {"loop", "done"}

\* The screening outcome of bar k of the run: "absent", "lateral" or "trend".
signalAt(k) ==
  IF At(screeningResults, k) = UNDEF THEN "absent"
  ELSE IF At(screeningResults, k).isLateral THEN "lateral" ELSE "trend"

\* The run closed the position left open after the last candle.
ForcedClosed == pc = "done" /\ position # UNDEF

\* C1: every Trade has exitIndex > entryIndex and exitIndex <= lastCandleIndex,
\* the trade of the forced close included.
C1_ExitAfterEntry ==
  \A k \in 1..Len(trades) :
    /\ trades[k].exitIndex > trades[k].entryIndex
    /\ trades[k].exitIndex <= lastCandleIndex

\* C2: with maxHoldingPeriod = H > 0 every Trade lasts at most H bars, whatever
\* the screening results after the entry are.
C2_DurationWithinMaxHolding ==
  config.maxHoldingPeriod > 0 =>
    \A k \in 1..Len(trades) :
      trades[k].exitIndex - trades[k].entryIndex <= config.maxHoldingPeriod

\* The largest capital among the initial capital and the first k closes.
RECURSIVE PeakAfter(_, _, _)
PeakAfter(initial, trace, k) ==
  IF k = 0 THEN initial
  ELSE Val({RMax(before, trace[k]) : before \in {PeakAfter(initial, trace, k - 1)}})

\* The largest (running peak - capital) over the first k closes.
RECURSIVE LargestDrop(_, _, _)
LargestDrop(initial, trace, k) ==
  IF k = 0 THEN RZero
  ELSE Val({RMax(before, drop) :
              before \in {LargestDrop(initial, trace, k - 1)},
              drop \in {RSub(PeakAfter(initial, trace, k), trace[k])}})

\* C3: after every trade close, the forced close included, peakCapital is the
\* running peak of the capital and maxDrawdown the largest drop from it; the
\* reported maxDrawdown is the largest drop over all closes of the run.
C3_DrawdownTracksEveryClose ==
  /\ Running =>
        /\ peakCapital = PeakAfter(config.initialCapital, capitalTrace, Len(capitalTrace))
        /\ maxDrawdown = LargestDrop(config.initialCapital, capitalTrace, Len(capitalTrace))
  /\ pc = "done" =>
        result.maxDrawdown = LargestDrop(config.initialCapital, capitalTrace, Len(capitalTrace))

\* C4: in the loop the simulator holds no position or exactly one position of
\* side long or short; positions opened and not yet closed never exceed one,
\* and a position is opened only from NoPosition.
C4_AtMostOnePosition ==
  pc = "loop" =>
    /\ position = UNDEF \/ position.type \in {"long", "short"}
    /\ Len(opened) - Len(trades) = IF position = UNDEF THEN 0 ELSE 1
    /\ position # UNDEF => position = opened[Len(opened)]

C4_SecondPositionHeld ==
  pc = "loop" /\ position # UNDEF /\ Len(trades) = 1 /\ Len(opened) = 2

\* C5: every position opened yields exactly one Trade of the result, closed in
\* the loop or by the forced close at the last candle; the result holds as
\* many trades as positions were opened, and none is left open.
C5_OneTradePerPosition ==
  pc = "done" =>
    /\ result.totalTrades = Len(opened)
    /\ Len(result.trades) = Len(opened)
    /\ \A k \in 1..Len(opened) :
          /\ result.trades[k].entryIndex = opened[k].entryIndex
          /\ result.trades[k].entryPrice = opened[k].entryPrice
          /\ result.trades[k].type = opened[k].type
    /\ position # UNDEF =>
          /\ result.trades[Len(opened)].exitIndex = lastCandleIndex
          /\ result.trades[Len(opened)].exitPrice =
                exitPriceOf(config, position, At(candles, lastCandleIndex))

C5_ForcedCloseAfterExit ==
  ForcedClosed /\ Len(opened) = 2 /\ Len(result.trades) = 2

C8_EntryStep ==
  LET opens == /\ pc = "loop" /\ i < Len(candles)
               /\ position = UNDEF
               /\ signalAt(i) = "lateral"
  IN  /\ opens =>
            /\ position' # UNDEF
            /\ position'.type = (IF config.tradingMode = "short" THEN "short" ELSE "long")
            /\ position'.entryIndex = i
      /\ ~opens => (position' = position \/ position' = UNDEF)

C8_NoShortUnderBoth ==
  config.tradingMode = "both" => \A k \in 1..Len(trades) : trades[k].type = "long"

\* C8: every step of run obeys the entry rule above, and under mode both
\* every trade is long.
C8_EntryRule == [][C8_EntryStep]_vars /\ []C8_NoShortUnderBoth

C8_BothTradedLong ==
  /\ config.tradingMode = "both" /\ pc = "loop"
  /\ Len(trades) = 1 /\ trades[1].type = "long"
  /\ position # UNDEF /\ position.entryIndex = i - 1

\* C9: an open position is closed in the loop at the first bar after its entry
\* on which (a) the signal is non-lateral or (b) index - entryIndex >= H for a
\* configured H, and on no other bar.
C9_ExitAtFirstDueBar ==
  LET due(k, entry) ==
        \/ signalAt(k) = "trend"
        \/ (config.maxHoldingPeriod > 0 /\ k - entry >= config.maxHoldingPeriod)
      early(entry, exit) == \E k \in (entry + 1)..(exit - 1) : due(k, entry)
  IN  Running =>
        /\ \A n \in 1..Len(trades) :
              /\ ~early(trades[n].entryIndex, trades[n].exitIndex)
              /\ ~(ForcedClosed /\ n = Len(trades)) =>
                    /\ trades[n].exitIndex > trades[n].entryIndex
                    /\ due(trades[n].exitIndex, trades[n].entryIndex)
        /\ (pc = "loop" /\ position # UNDEF) => ~early(position.entryIndex, i)

\* C10: with fewer than 2 * period candles calculateADX and screenAll answer
\* "absent" at every index, and run ends with no trade, no screening signal and
\* finalCapital = initialCapital.
C10_ShortSeriesIsAbsent ==
  Len(candles) < 2 * period =>
    /\ pc = "indicator" =>
          /\ Len(adxResults) = Len(candles)
          /\ \A k \in 1..Len(adxResults) : adxResults[k] = UNDEF
    /\ Running =>
          /\ Len(screeningResults) = Len(candles)
          /\ \A k \in 1..Len(screeningResults) : screeningResults[k] = UNDEF
          /\ trades = <<>> /\ screeningSignals = 0
    /\ pc = "done" =>
          /\ result.trades = <<>> /\ result.totalTrades = 0
          /\ result.screeningSignals = 0
          /\ result.finalCapital = config.initialCapital

C10_ShortRunDone ==
  /\ pc = "done" /\ period = 2 /\ Len(candles) = 3
  /\ result.totalTrades = 0

C10_ShortIndicatorDone ==
  pc = "indicator" /\ period = 2 /\ Len(candles) = 3 /\ Len(adxResults) = 3

\* The sample of the indicator at index k, computed as screen computes it: on
\* the candles 0..k.
sampleAt(k) == lastOf(calculateADX(Slice(candles, 0, k + 1), period))

\* C11: screen answers with a signal exactly when index >= 2 * period and the
\* ADX computed at the index is not 0; a signal has isLateral = (adxValue <=
\* pADXMaxLateral), equality included, screening = isLateral, and the
\* timestamp of the candle at the index.
C11_ScreenContract ==
  (pc = "loop" /\ i = 0) =>
    \A k \in 0..lastCandleIndex :
      Val({/\ (signal # UNDEF) <=> (k >= 2 * period /\ sampleAt(k).adx # RZero)
           /\ signal # UNDEF =>
                 /\ signal.adxValue = sampleAt(k).adx
                 /\ signal.isLateral = RLe(signal.adxValue, params.pADXMaxLateral)
                 /\ signal.screening = signal.isLateral
                 /\ signal.timestamp = At(candles, k).timestamp :
           signal \in {At(screeningResults, k)}})

C11_ThresholdReached ==
  /\ pc = "loop" /\ i = 0
  /\ \E k \in 0..lastCandleIndex :
        /\ signalAt(k) = "lateral"
        /\ At(screeningResults, k).adxValue = params.pADXMaxLateral
  /\ \E k \in 0..lastCandleIndex : signalAt(k) = "trend"
  /\ \E k \in (2 * period)..lastCandleIndex : signalAt(k) = "absent"

\* The sum of the pnl of the trades of ts whose pnl has the given sign
\* (1: pnl > 0, -1: pnl < 0).
RECURSIVE SignedPnl(_, _)
SignedPnl(ts, sign) ==
  IF ts = <<>> THEN RZero
  ELSE IF Head(ts).pnl.num * sign > 0
    THEN RAdd(Head(ts).pnl, SignedPnl(Tail(ts), sign))
    ELSE SignedPnl(Tail(ts), sign)

\* C12: the reported profitFactor is grossProfit / grossLoss when grossLoss > 0,
\* +infinity when grossLoss = 0 and grossProfit > 0, and 0 when both are 0 (the
\* empty trade list included), with grossProfit the sum of the positive pnl
\* and grossLoss the absolute value of the sum of the negative pnl.
C12_ProfitFactorConventions ==
  pc = "done" =>
    Val({/\ RGt(grossLoss, RZero) => result.profitFactor = RDiv(grossProfit, grossLoss)
         /\ (grossLoss = RZero /\ RGt(grossProfit, RZero)) => result.profitFactor = Infinity
         /\ (grossLoss = RZero /\ grossProfit = RZero) => result.profitFactor = RZero :
         grossProfit \in {SignedPnl(result.trades, 1)},
         grossLoss \in {RAbs(SignedPnl(result.trades, -1))}})

C12_WinsWithoutLoss ==
  /\ pc = "done" /\ result.winningTrades >= 1 /\ result.losingTrades = 0
  /\ result.profitFactor = Infinity

C12_WinAndLoss ==
  /\ pc = "done" /\ result.winningTrades = 1 /\ result.losingTrades = 1
  /\ result.profitFactor # Infinity /\ result.profitFactor # RZero

\* The number of trades of ts with pnl > 0.
Winners(ts) == Cardinality({k \in 1..Len(ts) : RGt(ts[k].pnl, RZero)})

\* C13 as stated: the reported win rate is winningTrades / totalTrades, a
\* fraction between 0 and 1, and 0 when there are no trades.
C13_WinRateIsFraction ==
  pc = "done" =>
    /\ result.winRate =
          IF Len(result.trades) > 0
            THEN Rat(Winners(result.trades), Len(result.trades)) ELSE RZero
    /\ RLe(RZero, result.winRate) /\ RLe(result.winRate, RInt(1))

\* C13 amended: the reported win rate is the percentage
\* 100 * winningTrades / totalTrades, between 0 and 100, and 0 when there are
\* no trades; winningTrades counts the trades with pnl > 0.
C13_WinRateIsPercentage ==
  pc = "done" =>
    /\ result.winningTrades = Winners(result.trades)
    /\ result.totalTrades = Len(result.trades)
    /\ result.winRate =
          IF Len(result.trades) > 0
            THEN Rat(100 * Winners(result.trades), Len(result.trades)) ELSE RZero
    /\ RLe(RZero, result.winRate) /\ RLe(result.winRate, RInt(100))

C13_HalfTheTradesWon ==
  /\ pc = "done" /\ result.totalTrades = 2 /\ result.winningTrades = 1
  /\ result.winRate = RInt(50)

\* The capital before the close that produced the k-th trade.
capitalBefore(k) == IF k = 1 THEN config.initialCapital ELSE capitalTrace[k - 1]

\* The side-signed relative move from a trade's entry fill to its exit fill.
rawReturn(t) ==
  IF t.type = "long"
    THEN RDiv(RSub(t.exitPrice, t.entryPrice), t.entryPrice)
    ELSE RDiv(RSub(t.entryPrice, t.exitPrice), t.entryPrice)

\* C14: every trade's pnlPercent is its side-signed raw return minus twice the
\* commission, and its pnl is (capital before the close) * positionSize *
\* pnlPercent; with commission 0.01, a single trade whose fills are equal has
\* pnlPercent = -0.02 and pnl = initialCapital * positionSize * (-0.02).
C14_RoundTripCommission ==
  Running =>
    /\ \A k \in 1..Len(trades) :
          /\ trades[k].pnlPercent =
                RSub(rawReturn(trades[k]), RMul(RInt(2), config.commission))
          /\ trades[k].pnl =
                RMul(RMul(capitalBefore(k), config.positionSize), trades[k].pnlPercent)
    /\ (/\ config.commission = Rat(1, 100)
        /\ Len(trades) = 1
        /\ trades[1].exitPrice = trades[1].entryPrice) =>
          /\ trades[1].pnlPercent = Rat(-2, 100)
          /\ trades[1].pnl =
                RMul(RMul(config.initialCapital, config.positionSize), Rat(-2, 100))

C14_FlatTradePaysTwice ==
  /\ pc = "done" /\ config.commission = Rat(1, 100)
  /\ Len(result.trades) = 1
  /\ result.trades[1].exitPrice = result.trades[1].entryPrice
  /\ result.trades[1].exitIndex > result.trades[1].entryIndex
  /\ result.trades[1].pnlPercent = Rat(-2, 100)

\* No step of a run writes to the candles, the strategy parameters or the
\* configuration.
C15_InputsKept ==
  /\ candles' = candles
  /\ params' = params
  /\ config' = config

\* screenAll's array is screen at every index; the second run's result is the
\* first's.
C15_SameAnswer ==
  /\ Running =>
        /\ Len(screeningResults) = Len(candles)
        /\ \A k \in 0..lastCandleIndex :
              (i = 0 /\ pc = "loop") => At(screeningResults, k) = screen(params, candles, k)
  /\ (pc = "done" /\ previousResult # UNDEF) => result = previousResult

\* C15: screenAll yields one entry per candle index, in index order, entry k
\* being screen(candles, k); a run changes neither the candles nor the
\* strategy parameters nor the configuration; a second run on the same engine
\* and candles returns a result identical to the first.
C15_RepeatableRun == [][C15_InputsKept]_vars /\ []C15_SameAnswer

C15_SecondRunTraded ==
  /\ pc = "done" /\ previousResult # UNDEF
  /\ result.totalTrades = 2
  /\ result.finalCapital # config.initialCapital

\* highDiff and lowDiff of bar k >= 1.
highDiffAt(k) == RSub(At(candles, k).high, At(candles, k - 1).high)
lowDiffAt(k) == RSub(At(candles, k - 1).low, At(candles, k).low)

\* C16: at every index at most one of plusDM and minusDM is nonzero and both
\* are >= 0; both are 0 at index 0 and whenever highDiff = lowDiff; plusDM is
\* highDiff only if highDiff > lowDiff and highDiff > 0, minusDM is lowDiff
\* only if lowDiff > highDiff and lowDiff > 0.
C16_DirectionalMovementExclusive ==
  (pc = "indicator" /\ Len(candles) >= 2 * period) =>
    /\ Len(directionalMovement.plusDM) = Len(candles)
    /\ Len(directionalMovement.minusDM) = Len(candles)
    /\ \A k \in 0..lastCandleIndex :
          Val({/\ RLe(RZero, plus) /\ RLe(RZero, minus)
               /\ plus = RZero \/ minus = RZero
               /\ k = 0 => (plus = RZero /\ minus = RZero)
               /\ (k > 0 /\ highDiffAt(k) = lowDiffAt(k)) => (plus = RZero /\ minus = RZero)
               /\ plus # RZero =>
                     /\ plus = highDiffAt(k)
                     /\ RGt(highDiffAt(k), lowDiffAt(k)) /\ RGt(highDiffAt(k), RZero)
               /\ minus # RZero =>
                     /\ minus = lowDiffAt(k)
                     /\ RGt(lowDiffAt(k), highDiffAt(k)) /\ RGt(lowDiffAt(k), RZero) :
               plus \in {At(directionalMovement.plusDM, k)},
               minus \in {At(directionalMovement.minusDM, k)}})

C16_WideningBar ==
  /\ pc = "indicator" /\ Len(candles) = 3
  /\ highDiffAt(1) = lowDiffAt(1) /\ RGt(highDiffAt(1), RZero)
  /\ At(directionalMovement.plusDM, 1) = RZero
  /\ At(directionalMovement.minusDM, 1) = RZero
  /\ At(directionalMovement.plusDM, 2) = highDiffAt(2)
  /\ RGt(highDiffAt(2), RZero)
  /\ At(directionalMovement.minusDM, 2) = RZero

\* C17: trades are appended in chronological order and never overlap: each
\* trade is entered on a bar after the exit bar of the trade before it, the
\* open position likewise, and no entry happens before index 2 * period.
C17_TradesInOrder ==
  Running =>
    /\ \A k \in 1..Len(trades) :
          /\ trades[k].entryIndex >= 2 * period
          /\ k < Len(trades) => trades[k + 1].entryIndex > trades[k].exitIndex
    /\ (pc = "loop" /\ position # UNDEF) =>
          /\ position.entryIndex >= 2 * period
          /\ Len(trades) > 0 => position.entryIndex > trades[Len(trades)].exitIndex

C17_ReentryOnNextBar ==
  /\ pc = "done" /\ Len(trades) = 2
  /\ trades[2].entryIndex = trades[1].exitIndex + 1
  /\ trades[1].entryIndex = 2 * period

\* One step of run seen from a bar without a screening result, or from a bar
\* on which a position is opened.
C18_FrameStep ==
  LET inBar == pc = "loop" /\ i < Len(candles)
      absentBar == inBar /\ signalAt(i) = "absent"
      entryBar == inBar /\ position = UNDEF /\ signalAt(i) = "lateral"
  IN  /\ absentBar =>
            /\ position' = position
            /\ capital' = capital
            /\ peakCapital' = peakCapital
            /\ maxDrawdown' = maxDrawdown
            /\ trades' = trades
            /\ screeningSignals' = screeningSignals
      /\ entryBar =>
            /\ position' # UNDEF
            /\ capital' = capital
            /\ peakCapital' = peakCapital
            /\ maxDrawdown' = maxDrawdown
            /\ trades' = trades

C19_PrefixEqualsFullPass ==
  (pc = "loop" /\ i = 0) =>
    Val({\A k \in (2 * period)..lastCandleIndex :
           /\ At(fullPass, k) # UNDEF
           /\ IF At(screeningResults, k) = UNDEF
                THEN At(fullPass, k).adx = RZero
                ELSE /\ At(screeningResults, k).adxValue = At(fullPass, k).adx
                     /\ At(screeningResults, k).isLateral =
                           RLe(At(fullPass, k).adx, params.pADXMaxLateral) :
         fullPass \in {calculateADX(candles, period)}})

C19_SignalBeforeLastCandle ==
  /\ pc = "loop" /\ i = 0 /\ period = 2
  /\ \E k \in (2 * period)..(lastCandleIndex - 2) :
        /\ signalAt(k) # "absent"
        /\ At(screeningResults, k).adxValue.den > 1
        /\ signalAt(k + 1) # "absent"
        /\ At(screeningResults, k + 1).adxValue # At(screeningResults, k).adxValue

====
